---- MODULE Spec2Model ----
(***************************************************************************)
(* Model of gfx.ts: src/math/matrix4.ts (class Matrix4), specification     *)
(* Spec.                                                                   *)
(*                                                                         *)
(* A Matrix4 instance owns one 16-entry column-major buffer (_val).  The   *)
(* model keeps a heap of instances, val[o][i] being entry i of the buffer  *)
(* of instance o, so that a call whose result parameter aliases its        *)
(* receiver or its argument reads and writes the same buffer.              *)
(*                                                                         *)
(* Numbers: the code computes in IEEE doubles.  The model computes in      *)
(* exact rationals <<n, d>> (d > 0, lowest terms); rounding is outside     *)
(* the model.  Square roots are taken only of squares of rationals.        *)
(*                                                                         *)
(* src/renderer/shader/texture.ts (class Texture) is the second            *)
(* specification, TexSpec: one Texture, its image element's events, the    *)
(* callbacks waiting on the renderer's yield, and the GL textures.         *)
(***************************************************************************)
EXTENDS Integers, Sequences, FiniteSets, TLC

(***************************************************************************)
(* Bounds of the model.                                                    *)
(***************************************************************************)
\* number of Matrix4 instances the heap can hold
NumObj == 3
\* number of calls in a run
MaxOps == 2
\* a call is made only while every numerator in the heap is within MaxNum
\* and every denominator within MaxDen
MaxNum == 40
MaxDen == 4
\* number of load() calls on the Texture in a run
MaxLoads == 2
\* number of calls and callbacks on the Texture in a run
MaxEvents == 6

(***************************************************************************)
(* Exact rational arithmetic standing for the code's number type.          *)
(***************************************************************************)
Abs(x) == IF x < 0 THEN -x ELSE x

RECURSIVE GCD(_, _)
GCD(a, b) == IF b = 0 THEN a ELSE GCD(b, a % b)

Norm(n, d) ==
    LET s == IF d < 0 THEN -1 ELSE 1
        g == GCD(Abs(n), Abs(d))
    IN  <<(s * n) \div g, (s * d) \div g>>

\* the number k
Num(k) == <<k, 1>>
\* the number n / d
Frac(n, d) == Norm(n, d)

Add(a, b) == IF a[2] = 1 /\ b[2] = 1 THEN <<a[1] + b[1], 1>>
             ELSE Norm(a[1] * b[2] + b[1] * a[2], a[2] * b[2])
Neg(a) == <<-a[1], a[2]>>
Sub(a, b) == Add(a, Neg(b))
Mul(a, b) == IF a[2] = 1 /\ b[2] = 1 THEN <<a[1] * b[1], 1>>
             ELSE Norm(a[1] * b[1], a[2] * b[2])
\* a / b, for b # 0
Div(a, b) == Norm(a[1] * b[2], a[2] * b[1])
IsZero(a) == a[1] = 0

Mul3(a, b, c) == Mul(Mul(a, b), c)
Mul4(a, b, c, d) == Mul(Mul(Mul(a, b), c), d)
Add4(a, b, c, d) == Add(Add(Add(a, b), c), d)

(***************************************************************************)
(* The heap of Matrix4 instances.                                          *)
(***************************************************************************)
Obj == 1 .. NumObj
\* the value of an omitted optional parameter, and of "no return value"
Undefined == 0
Idx == 0 .. 15

\* a buffer from its 16 integer entries, listed in index order 0..15
Buf(s) == [i \in Idx |-> Num(s[i + 1])]

\* constructor: the buffer of a new instance
NewVal == Buf(<<1, 0, 0, 0,
                0, 1, 0, 0,
                0, 0, 1, 0,
                0, 0, 0, 1>>)

\* the outcome of a call: the heap it leaves, what it returns, what it throws.
\* The code throws Error with a message; the model tells its two throws apart
\* by name: "InvalidArgument" (fromArray) and "SingularMatrix" (invert).
Ok(h, ret) == [h |-> h, ret |-> ret, err |-> "none"]
Throw(h, e) == [h |-> h, ret |-> Undefined, err |-> e]

\* optresult || this
OrThis(optresult, this) == IF optresult = Undefined THEN this ELSE optresult

\* new Matrix4() at the free heap slot o
New(h, o) == Ok([h EXCEPT ![o] = NewVal], o)


\* the array [v0, ..., v15]
Arr16(v0, v1, v2, v3, v4, v5, v6, v7, v8, v9, v10, v11, v12, v13, v14, v15) ==
    [i \in Idx |-> <<v0, v1, v2, v3, v4, v5, v6, v7,
                     v8, v9, v10, v11, v12, v13, v14, v15>>[i + 1]]

\* values.length of an array (a function on 0 .. length-1)
Length(values) == Cardinality(DOMAIN values)

(***************************************************************************)
(* Matrix4Json and the methods of Matrix4.  Each method is an operator on  *)
(* the heap h and the receiver this, and yields the outcome of the call.   *)
(***************************************************************************)
serialise(h, this) ==
    LET m == h[this]
    IN  [m00 |-> m[0],  m10 |-> m[1],  m20 |-> m[2],  m30 |-> m[3],
         m01 |-> m[4],  m11 |-> m[5],  m21 |-> m[6],  m31 |-> m[7],
         m02 |-> m[8],  m12 |-> m[9],  m22 |-> m[10], m32 |-> m[11],
         m03 |-> m[12], m13 |-> m[13], m23 |-> m[14], m33 |-> m[15]]

set(h, this, m00, m01, m02, m03, m10, m11, m12, m13, m20, m21, m22, m23, m30, m31, m32, m33) ==
    Ok([h EXCEPT ![this] = Arr16(m00, m10, m20, m30,
                                 m01, m11, m21, m31,
                                 m02, m12, m22, m32,
                                 m03, m13, m23, m33)], this)

\* deserialise handing the fields to set column by column
deserialise_columnOrder(h, this, values) ==
    set(h, this,
        values.m00, values.m10, values.m20, values.m30,
        values.m01, values.m11, values.m21, values.m31,
        values.m02, values.m12, values.m22, values.m32,
        values.m03, values.m13, values.m23, values.m33)

deserialise(h, this, values) ==
    set(h, this,
        values.m00, values.m01, values.m02, values.m03,
        values.m10, values.m11, values.m12, values.m13,
        values.m20, values.m21, values.m22, values.m23,
        values.m30, values.m31, values.m32, values.m33)

\* static deserialise: new Matrix4() at the free slot o, then deserialise
Matrix4_deserialise(h, o, values) == deserialise(New(h, o).h, o, values)

\* fromArray with the length test off by one
fromArray_offByOne(h, this, values) ==
    IF Length(values) <= 16 THEN Throw(h, "InvalidArgument")
    ELSE Ok([h EXCEPT ![this] = [i \in Idx |-> values[i]]], this)

fromArray(h, this, values) ==
    IF Length(values) < 16 THEN Throw(h, "InvalidArgument")
    ELSE Ok([h EXCEPT ![this] =
                Arr16(values[0],  values[1],  values[2],  values[3],
                      values[4],  values[5],  values[6],  values[7],
                      values[8],  values[9],  values[10], values[11],
                      values[12], values[13], values[14], values[15])], this)

copy(h, this, matrix) == fromArray(h, this, h[matrix])

\* clone without the new instance: this.fromArray(this._val)
clone_noNew(h, this, o) == fromArray(h, this, h[this])

\* new Matrix4() at the free slot o, then fromArray(this._val)
clone(h, this, o) == fromArray(New(h, o).h, o, h[this])

identity(h, this) ==
    LET r == set(h, this, Num(1), Num(0), Num(0), Num(0),
                          Num(0), Num(1), Num(0), Num(0),
                          Num(0), Num(0), Num(1), Num(0),
                          Num(0), Num(0), Num(0), Num(1))
    IN  Ok(r.h, this)

scale(h, this, factor, optresult) ==
    LET result == OrThis(optresult, this)
        m == h[result]
    IN  Ok([h EXCEPT ![result] = [i \in Idx |-> Mul(m[i], factor)]], result)

\* multiply without the locals: every cell is computed from the buffers as they
\* are when it is written, in the order the code writes the cells
WriteOrder == <<0, 4, 8, 12, 1, 5, 9, 13, 2, 6, 10, 14, 3, 7, 11, 15>>

RECURSIVE MultiplyCells(_, _, _, _, _)
MultiplyCells(g, a, b, result, k) ==
    IF k > 16 THEN g
    ELSE LET i == WriteOrder[k]
             r == i % 4
             c == i \div 4
             v == Add4(Mul(g[a][r], g[b][4 * c]),
                       Mul(g[a][4 + r], g[b][4 * c + 1]),
                       Mul(g[a][8 + r], g[b][4 * c + 2]),
                       Mul(g[a][12 + r], g[b][4 * c + 3]))
         IN  MultiplyCells([g EXCEPT ![result][i] = v], a, b, result, k + 1)

Matrix4_multiply_uncached(h, a, b, result) ==
    Ok(MultiplyCells(h, a, b, result, 1), result)

\* static multiply(a, b, result)
Matrix4_multiply(h, a, b, result) ==
    LET av == h[a]
        bv == h[b]
        a11 == av[0]  a12 == av[4]  a13 == av[8]   a14 == av[12]
        a21 == av[1]  a22 == av[5]  a23 == av[9]   a24 == av[13]
        a31 == av[2]  a32 == av[6]  a33 == av[10]  a34 == av[14]
        a41 == av[3]  a42 == av[7]  a43 == av[11]  a44 == av[15]
        b11 == bv[0]  b12 == bv[4]  b13 == bv[8]   b14 == bv[12]
        b21 == bv[1]  b22 == bv[5]  b23 == bv[9]   b24 == bv[13]
        b31 == bv[2]  b32 == bv[6]  b33 == bv[10]  b34 == bv[14]
        b41 == bv[3]  b42 == bv[7]  b43 == bv[11]  b44 == bv[15]
        r0  == Add4(Mul(a11, b11), Mul(a12, b21), Mul(a13, b31), Mul(a14, b41))
        r4  == Add4(Mul(a11, b12), Mul(a12, b22), Mul(a13, b32), Mul(a14, b42))
        r8  == Add4(Mul(a11, b13), Mul(a12, b23), Mul(a13, b33), Mul(a14, b43))
        r12 == Add4(Mul(a11, b14), Mul(a12, b24), Mul(a13, b34), Mul(a14, b44))
        r1  == Add4(Mul(a21, b11), Mul(a22, b21), Mul(a23, b31), Mul(a24, b41))
        r5  == Add4(Mul(a21, b12), Mul(a22, b22), Mul(a23, b32), Mul(a24, b42))
        r9  == Add4(Mul(a21, b13), Mul(a22, b23), Mul(a23, b33), Mul(a24, b43))
        r13 == Add4(Mul(a21, b14), Mul(a22, b24), Mul(a23, b34), Mul(a24, b44))
        r2  == Add4(Mul(a31, b11), Mul(a32, b21), Mul(a33, b31), Mul(a34, b41))
        r6  == Add4(Mul(a31, b12), Mul(a32, b22), Mul(a33, b32), Mul(a34, b42))
        r10 == Add4(Mul(a31, b13), Mul(a32, b23), Mul(a33, b33), Mul(a34, b43))
        r14 == Add4(Mul(a31, b14), Mul(a32, b24), Mul(a33, b34), Mul(a34, b44))
        r3  == Add4(Mul(a41, b11), Mul(a42, b21), Mul(a43, b31), Mul(a44, b41))
        r7  == Add4(Mul(a41, b12), Mul(a42, b22), Mul(a43, b32), Mul(a44, b42))
        r11 == Add4(Mul(a41, b13), Mul(a42, b23), Mul(a43, b33), Mul(a44, b43))
        r15 == Add4(Mul(a41, b14), Mul(a42, b24), Mul(a43, b34), Mul(a44, b44))
    IN  Ok([h EXCEPT ![result] = Arr16(r0, r1, r2, r3, r4, r5, r6, r7, r8, r9,
                                       r10, r11, r12, r13, r14, r15)], result)

multiply(h, this, matrix, optresult) ==
    LET result == OrThis(optresult, this)
    IN  Matrix4_multiply(h, this, matrix, result)

\* preMultiply with the operands in the order of multiply
preMultiply_swapped(h, this, matrix, optresult) ==
    LET result == OrThis(optresult, this)
    IN  Matrix4_multiply(h, this, matrix, result)

preMultiply(h, this, matrix, optresult) ==
    LET result == OrThis(optresult, this)
    IN  Matrix4_multiply(h, matrix, this, result)

\* transpose without the local m12: m[6] is read from m[9] after m[9] was written
transpose_uncached(h, this) ==
    LET m == h[this]
        m01 == m[4]
        m02 == m[8]
        m03 == m[12]
        m13 == m[13]
        m23 == m[14]
        s1  == [m   EXCEPT ![4]  = m[1]]
        s2  == [s1  EXCEPT ![8]  = s1[2]]
        s3  == [s2  EXCEPT ![12] = s2[3]]
        s4  == [s3  EXCEPT ![1]  = m01]
        s5  == [s4  EXCEPT ![9]  = s4[6]]
        s6  == [s5  EXCEPT ![13] = s5[7]]
        s7  == [s6  EXCEPT ![2]  = m02]
        s8  == [s7  EXCEPT ![6]  = s7[9]]
        s9  == [s8  EXCEPT ![14] = s8[11]]
        s10 == [s9  EXCEPT ![3]  = m03]
        s11 == [s10 EXCEPT ![7]  = m13]
        s12 == [s11 EXCEPT ![11] = m23]
    IN  Ok([h EXCEPT ![this] = s12], this)

transpose(h, this) ==
    LET m == h[this]
        m01 == m[4]
        m02 == m[8]
        m03 == m[12]
        m12 == m[9]
        m13 == m[13]
        m23 == m[14]
        \* the twelve assignments, in the order the code makes them
        s1  == [m   EXCEPT ![4]  = m[1]]
        s2  == [s1  EXCEPT ![8]  = s1[2]]
        s3  == [s2  EXCEPT ![12] = s2[3]]
        s4  == [s3  EXCEPT ![1]  = m01]
        s5  == [s4  EXCEPT ![9]  = s4[6]]
        s6  == [s5  EXCEPT ![13] = s5[7]]
        s7  == [s6  EXCEPT ![2]  = m02]
        s8  == [s7  EXCEPT ![6]  = m12]
        s9  == [s8  EXCEPT ![14] = s8[11]]
        s10 == [s9  EXCEPT ![3]  = m03]
        s11 == [s10 EXCEPT ![7]  = m13]
        s12 == [s11 EXCEPT ![11] = m23]
    IN  Ok([h EXCEPT ![this] = s12], this)

resetPos(h, this) ==
    Ok([h EXCEPT ![this][12] = Num(0), ![this][13] = Num(0), ![this][14] = Num(0)],
       this)

determinant(h, this) ==
    LET m == h[this]
    IN  Add(Sub(Sub(Add(Add(Sub(Sub(Add(Add(Sub(Sub(Add(Add(Sub(Sub(Add(Add(Sub(Sub(Add(Add(Sub(Sub(Mul4(m[3], m[6], m[9], m[12]),
        Mul4(m[2], m[7], m[9], m[12])),
        Mul4(m[3], m[5], m[10], m[12])),
        Mul4(m[1], m[7], m[10], m[12])),
        Mul4(m[2], m[5], m[11], m[12])),
        Mul4(m[1], m[6], m[11], m[12])),
        Mul4(m[3], m[6], m[8], m[13])),
        Mul4(m[2], m[7], m[8], m[13])),
        Mul4(m[3], m[4], m[10], m[13])),
        Mul4(m[0], m[7], m[10], m[13])),
        Mul4(m[2], m[4], m[11], m[13])),
        Mul4(m[0], m[6], m[11], m[13])),
        Mul4(m[3], m[5], m[8], m[14])),
        Mul4(m[1], m[7], m[8], m[14])),
        Mul4(m[3], m[4], m[9], m[14])),
        Mul4(m[0], m[7], m[9], m[14])),
        Mul4(m[1], m[4], m[11], m[14])),
        Mul4(m[0], m[5], m[11], m[14])),
        Mul4(m[2], m[5], m[8], m[15])),
        Mul4(m[1], m[6], m[8], m[15])),
        Mul4(m[2], m[4], m[9], m[15])),
        Mul4(m[0], m[6], m[9], m[15])),
        Mul4(m[1], m[4], m[10], m[15])),
        Mul4(m[0], m[5], m[10], m[15]))

\* the sixteen cofactors invert computes into locals, by local name
cofactors(m) ==
    LET
        m00 ==
            Add(Sub(Sub(Add(Sub(Mul3(m[9], m[14], m[7]),
            Mul3(m[13], m[10], m[7])),
            Mul3(m[13], m[6], m[11])),
            Mul3(m[5], m[14], m[11])),
            Mul3(m[9], m[6], m[15])),
            Mul3(m[5], m[10], m[15]))
        m01 ==
            Sub(Add(Add(Sub(Sub(Mul3(m[12], m[10], m[7]),
            Mul3(m[8], m[14], m[7])),
            Mul3(m[12], m[6], m[11])),
            Mul3(m[4], m[14], m[11])),
            Mul3(m[8], m[6], m[15])),
            Mul3(m[4], m[10], m[15]))
        m02 ==
            Add(Sub(Sub(Add(Sub(Mul3(m[8], m[13], m[7]),
            Mul3(m[12], m[9], m[7])),
            Mul3(m[12], m[5], m[11])),
            Mul3(m[4], m[13], m[11])),
            Mul3(m[8], m[5], m[15])),
            Mul3(m[4], m[9], m[15]))
        m03 ==
            Sub(Add(Add(Sub(Sub(Mul3(m[12], m[9], m[6]),
            Mul3(m[8], m[13], m[6])),
            Mul3(m[12], m[5], m[10])),
            Mul3(m[4], m[13], m[10])),
            Mul3(m[8], m[5], m[14])),
            Mul3(m[4], m[9], m[14]))
        m10 ==
            Sub(Add(Add(Sub(Sub(Mul3(m[13], m[10], m[3]),
            Mul3(m[9], m[14], m[3])),
            Mul3(m[13], m[2], m[11])),
            Mul3(m[1], m[14], m[11])),
            Mul3(m[9], m[2], m[15])),
            Mul3(m[1], m[10], m[15]))
        m11 ==
            Add(Sub(Sub(Add(Sub(Mul3(m[8], m[14], m[3]),
            Mul3(m[12], m[10], m[3])),
            Mul3(m[12], m[2], m[11])),
            Mul3(m[0], m[14], m[11])),
            Mul3(m[8], m[2], m[15])),
            Mul3(m[0], m[10], m[15]))
        m12 ==
            Sub(Add(Add(Sub(Sub(Mul3(m[12], m[9], m[3]),
            Mul3(m[8], m[13], m[3])),
            Mul3(m[12], m[1], m[11])),
            Mul3(m[0], m[13], m[11])),
            Mul3(m[8], m[1], m[15])),
            Mul3(m[0], m[9], m[15]))
        m13 ==
            Add(Sub(Sub(Add(Sub(Mul3(m[8], m[13], m[2]),
            Mul3(m[12], m[9], m[2])),
            Mul3(m[12], m[1], m[10])),
            Mul3(m[0], m[13], m[10])),
            Mul3(m[8], m[1], m[14])),
            Mul3(m[0], m[9], m[14]))
        m20 ==
            Add(Sub(Sub(Add(Sub(Mul3(m[5], m[14], m[3]),
            Mul3(m[13], m[6], m[3])),
            Mul3(m[13], m[2], m[7])),
            Mul3(m[1], m[14], m[7])),
            Mul3(m[5], m[2], m[15])),
            Mul3(m[1], m[6], m[15]))
        m21 ==
            Sub(Add(Add(Sub(Sub(Mul3(m[12], m[6], m[3]),
            Mul3(m[4], m[14], m[3])),
            Mul3(m[12], m[2], m[7])),
            Mul3(m[0], m[14], m[7])),
            Mul3(m[4], m[2], m[15])),
            Mul3(m[0], m[6], m[15]))
        m22 ==
            Add(Sub(Sub(Add(Sub(Mul3(m[4], m[13], m[3]),
            Mul3(m[12], m[5], m[3])),
            Mul3(m[12], m[1], m[7])),
            Mul3(m[0], m[13], m[7])),
            Mul3(m[4], m[1], m[15])),
            Mul3(m[0], m[5], m[15]))
        m23 ==
            Sub(Add(Add(Sub(Sub(Mul3(m[12], m[5], m[2]),
            Mul3(m[4], m[13], m[2])),
            Mul3(m[12], m[1], m[6])),
            Mul3(m[0], m[13], m[6])),
            Mul3(m[4], m[1], m[14])),
            Mul3(m[0], m[5], m[14]))
        m30 ==
            Sub(Add(Add(Sub(Sub(Mul3(m[9], m[6], m[3]),
            Mul3(m[5], m[10], m[3])),
            Mul3(m[9], m[2], m[7])),
            Mul3(m[1], m[10], m[7])),
            Mul3(m[5], m[2], m[11])),
            Mul3(m[1], m[6], m[11]))
        m31 ==
            Add(Sub(Sub(Add(Sub(Mul3(m[4], m[10], m[3]),
            Mul3(m[8], m[6], m[3])),
            Mul3(m[8], m[2], m[7])),
            Mul3(m[0], m[10], m[7])),
            Mul3(m[4], m[2], m[11])),
            Mul3(m[0], m[6], m[11]))
        m32 ==
            Sub(Add(Add(Sub(Sub(Mul3(m[8], m[5], m[3]),
            Mul3(m[4], m[9], m[3])),
            Mul3(m[8], m[1], m[7])),
            Mul3(m[0], m[9], m[7])),
            Mul3(m[4], m[1], m[11])),
            Mul3(m[0], m[5], m[11]))
        m33 ==
            Add(Sub(Sub(Add(Sub(Mul3(m[4], m[9], m[2]),
            Mul3(m[8], m[5], m[2])),
            Mul3(m[8], m[1], m[6])),
            Mul3(m[0], m[9], m[6])),
            Mul3(m[4], m[1], m[10])),
            Mul3(m[0], m[5], m[10]))
    IN  [m00 |-> m00, m01 |-> m01, m02 |-> m02, m03 |-> m03,
         m10 |-> m10, m11 |-> m11, m12 |-> m12, m13 |-> m13,
         m20 |-> m20, m21 |-> m21, m22 |-> m22, m23 |-> m23,
         m30 |-> m30, m31 |-> m31, m32 |-> m32, m33 |-> m33]

\* invert returning quietly, without a write, when the determinant is 0
invert_silent(h, this, optresult) ==
    LET det == determinant(h, this)
    IN  IF IsZero(det) THEN Ok(h, this)
        ELSE
        LET result == OrThis(optresult, this)
            c == cofactors(h[this])
            idet == Div(Num(1), det)
            r == Arr16(Mul(c.m00, idet), Mul(c.m10, idet), Mul(c.m20, idet), Mul(c.m30, idet),
                       Mul(c.m01, idet), Mul(c.m11, idet), Mul(c.m21, idet), Mul(c.m31, idet),
                       Mul(c.m02, idet), Mul(c.m12, idet), Mul(c.m22, idet), Mul(c.m32, idet),
                       Mul(c.m03, idet), Mul(c.m13, idet), Mul(c.m23, idet), Mul(c.m33, idet))
        IN  Ok([h EXCEPT ![result] = r], this)

\* invert writing the cofactors in the order of their names (row by row)
invert_rowOrder(h, this, optresult) ==
    LET det == determinant(h, this)
    IN  IF IsZero(det) THEN Throw(h, "SingularMatrix")
        ELSE
        LET result == OrThis(optresult, this)
            c == cofactors(h[this])
            idet == Div(Num(1), det)
            r == Arr16(Mul(c.m00, idet), Mul(c.m01, idet), Mul(c.m02, idet), Mul(c.m03, idet),
                       Mul(c.m10, idet), Mul(c.m11, idet), Mul(c.m12, idet), Mul(c.m13, idet),
                       Mul(c.m20, idet), Mul(c.m21, idet), Mul(c.m22, idet), Mul(c.m23, idet),
                       Mul(c.m30, idet), Mul(c.m31, idet), Mul(c.m32, idet), Mul(c.m33, idet))
        IN  Ok([h EXCEPT ![result] = r], this)

invert(h, this, optresult) ==
    LET det == determinant(h, this)
    IN  IF IsZero(det) THEN Throw(h, "SingularMatrix")
        ELSE
        LET result == OrThis(optresult, this)
            c == cofactors(h[this])
            idet == Div(Num(1), det)
            r == Arr16(Mul(c.m00, idet), Mul(c.m10, idet), Mul(c.m20, idet), Mul(c.m30, idet),
                       Mul(c.m01, idet), Mul(c.m11, idet), Mul(c.m21, idet), Mul(c.m31, idet),
                       Mul(c.m02, idet), Mul(c.m12, idet), Mul(c.m22, idet), Mul(c.m32, idet),
                       Mul(c.m03, idet), Mul(c.m13, idet), Mul(c.m23, idet), Mul(c.m33, idet))
        IN  Ok([h EXCEPT ![result] = r], this)

(***************************************************************************)
(* Vector3 {x, y, z} and Quaternion {x, y, z, w} are records of numbers.   *)
(***************************************************************************)
Vec3(x, y, z) == [x |-> x, y |-> y, z |-> z]
Quat(x, y, z, w) == [x |-> x, y |-> y, z |-> z, w |-> w]

\* Vector3.ZERO
Vector3_ZERO == Vec3(Num(0), Num(0), Num(0))

\* near, far and aspect as given; tanHalfFov is the value Math.tan returns for
\* (fov * (Math.PI / 180.0)) / 2.0
setToProjection(h, this, near, far, tanHalfFov, aspect) ==
    LET fd == Div(Num(1), tanHalfFov)
        a1 == Div(Add(far, near), Sub(near, far))
        a2 == Div(Mul(Mul(Num(2), far), near), Sub(near, far))
    IN  Ok([h EXCEPT ![this] =
               Arr16(Div(fd, aspect), Num(0), Num(0), Num(0),
                     Num(0), fd, Num(0), Num(0),
                     Num(0), Num(0), a1, Num(-1),
                     Num(0), Num(0), a2, Num(0))], this)

composePos(h, this, position) ==
    Ok([h EXCEPT ![this] =
           Arr16(Num(1), Num(0), Num(0), Num(0),
                 Num(0), Num(1), Num(0), Num(0),
                 Num(0), Num(0), Num(1), Num(0),
                 position.x, position.y, position.z, Num(1))], this)

composePosRot(h, this, position, rotation) ==
    LET xs == Mul(rotation.x, Num(2))
        ys == Mul(rotation.y, Num(2))
        zs == Mul(rotation.z, Num(2))
        wx == Mul(rotation.w, xs)
        wy == Mul(rotation.w, ys)
        wz == Mul(rotation.w, zs)
        xx == Mul(rotation.x, xs)
        xy == Mul(rotation.x, ys)
        xz == Mul(rotation.x, zs)
        yy == Mul(rotation.y, ys)
        yz == Mul(rotation.y, zs)
        zz == Mul(rotation.z, zs)
    IN  Ok([h EXCEPT ![this] =
           Arr16(Sub(Num(1), Add(yy, zz)), Add(xy, wz), Sub(xz, wy), Num(0),
                 Sub(xy, wz), Sub(Num(1), Add(xx, zz)), Add(yz, wx), Num(0),
                 Add(xz, wy), Sub(yz, wx), Sub(Num(1), Add(xx, yy)), Num(0),
                 position.x, position.y, position.z, Num(1))], this)

\* composeRot writing the rotation block only, the translation left as it was
composeRot_keepPos(h, this, rotation) ==
    composePosRot(h, this, Vec3(h[this][12], h[this][13], h[this][14]), rotation)

composeRot(h, this, rotation) == composePosRot(h, this, Vector3_ZERO, rotation)

composePosRotSca(h, this, position, rotation, sca) ==
    LET xs == Mul(rotation.x, Num(2))
        ys == Mul(rotation.y, Num(2))
        zs == Mul(rotation.z, Num(2))
        wx == Mul(rotation.w, xs)
        wy == Mul(rotation.w, ys)
        wz == Mul(rotation.w, zs)
        xx == Mul(rotation.x, xs)
        xy == Mul(rotation.x, ys)
        xz == Mul(rotation.x, zs)
        yy == Mul(rotation.y, ys)
        yz == Mul(rotation.y, zs)
        zz == Mul(rotation.z, zs)
    IN  Ok([h EXCEPT ![this] =
           Arr16(Mul(sca.x, Sub(Num(1), Add(yy, zz))), Mul(sca.x, Add(xy, wz)),
                 Mul(sca.x, Sub(xz, wy)), Num(0),
                 Mul(sca.y, Sub(xy, wz)), Mul(sca.y, Sub(Num(1), Add(xx, zz))),
                 Mul(sca.y, Add(yz, wx)), Num(0),
                 Mul(sca.z, Add(xz, wy)), Mul(sca.z, Sub(yz, wx)),
                 Mul(sca.z, Sub(Num(1), Add(xx, yy))), Num(0),
                 position.x, position.y, position.z, Num(1))], this)

\* a >= b and a > b on numbers
Geq(a, b) == Sub(a, b)[1] >= 0
Gt(a, b) == Sub(a, b)[1] > 0

\* the largest integer r in lo .. hi with r * r <= n, by bisection
RECURSIVE RootBetween(_, _, _)
RootBetween(n, lo, hi) ==
    IF lo >= hi THEN lo
    ELSE LET mid == (lo + hi + 1) \div 2
         IN  IF mid <= n \div mid THEN RootBetween(n, mid, hi)
             ELSE RootBetween(n, lo, mid - 1)

\* the integer part of the square root of the integer n >= 0
Root(n) == RootBetween(n, 0, n)

\* n is the square of an integer
IsSquareInt(n) == \E r \in {Root(n)} : r * r = n

\* a is the square of a number of the model
IsSquare(a) == a[1] >= 0 /\ IsSquareInt(a[1]) /\ IsSquareInt(a[2])

\* Math.sqrt(a), for a the square of a number of the model
Math_sqrt(a) == <<Root(a[1]), Root(a[2])>>

\* the argument Vector3.len passes to the square root
SquaredLen(x, y, z) == Add(Add(Mul(x, x), Mul(y, y)), Mul(z, z))

\* Vector3.len(x, y, z) = sqrt(x^2 + y^2 + z^2)
Vector3_len(x, y, z) == Math_sqrt(SquaredLen(x, y, z))

\* the lengths of the three basis columns of the buffer v and the columns
\* divided by their lengths
scaledBasis(v) ==
    LET xx == v[0]
        xy == v[1]
        xz == v[2]
        yx == v[4]
        yy == v[5]
        yz == v[6]
        zx == v[8]
        zy == v[9]
        zz == v[10]
        sx == Vector3_len(xx, xy, xz)
        sy == Vector3_len(yx, yy, yz)
        sz == Vector3_len(zx, zy, zz)
        lx == Div(Num(1), sx)
        ly == Div(Num(1), sy)
        lz == Div(Num(1), sz)
    IN  [sx |-> sx, sy |-> sy, sz |-> sz,
         sxx |-> Mul(xx, lx), sxy |-> Mul(xy, lx), sxz |-> Mul(xz, lx),
         syx |-> Mul(yx, ly), syy |-> Mul(yy, ly), syz |-> Mul(yz, ly),
         szx |-> Mul(zx, lz), szy |-> Mul(zy, lz), szz |-> Mul(zz, lz)]

\* the argument of Math.sqrt in the branch decomposePosRotSca takes on the
\* scaled basis b
traceTerm(b) ==
    LET t == Add(Add(b.sxx, b.syy), b.szz)
    IN  IF Geq(t, Num(0)) THEN Add(t, Num(1))
        ELSE IF Gt(b.sxx, b.syy) /\ Gt(b.sxx, b.szz)
             THEN Sub(Sub(Add(Num(1), b.sxx), b.syy), b.szz)
        ELSE IF Gt(b.syy, b.szz)
             THEN Sub(Sub(Add(Num(1), b.syy), b.sxx), b.szz)
        ELSE Sub(Sub(Add(Num(1), b.szz), b.sxx), b.syy)

\* the buffers on which every square root decomposePosRotSca takes is a
\* number of the model and no division is by zero
ExactRoots(v) ==
    /\ \A c \in {0, 4, 8} :
           \E l \in {SquaredLen(v[c], v[c + 1], v[c + 2])} : IsSquare(l) /\ ~IsZero(l)
    /\ \E b \in {scaledBasis(v)} :
           \E a \in {traceTerm(b)} : IsSquare(a) /\ ~IsZero(a)

\* the quaternion decomposePosRotSca sets from the scaled basis b, s being
\* the square root its branch took
rotationOf(b, s) ==
    LET t == Add(Add(b.sxx, b.syy), b.szz)
        half == Frac(1, 2)
        sd == Div(half, s)
    IN  IF Geq(t, Num(0))
        THEN Quat(Mul(Sub(b.szy, b.syz), sd), Mul(Sub(b.sxz, b.szx), sd),
                  Mul(Sub(b.syx, b.sxy), sd), Mul(half, s))
        ELSE IF Gt(b.sxx, b.syy) /\ Gt(b.sxx, b.szz)
        THEN Quat(Mul(s, half), Mul(Add(b.syx, b.sxy), sd),
                  Mul(Add(b.sxz, b.szx), sd), Mul(Sub(b.szy, b.syz), sd))
        ELSE IF Gt(b.syy, b.szz)
        THEN Quat(Mul(Add(b.syx, b.sxy), sd), Mul(s, half),
                  Mul(Add(b.szy, b.syz), sd), Mul(Sub(b.sxz, b.szx), sd))
        ELSE Quat(Mul(Add(b.sxz, b.szx), sd), Mul(Add(b.szy, b.syz), sd),
                  Mul(s, half), Mul(Sub(b.syx, b.sxy), sd))

\* the one element of the set S
The(S) == CHOOSE x \in S : TRUE

\* returns the contents the three out-parameters have after the call
decomposePosRotSca(h, this) ==
    Ok(h, The({[position |-> Vec3(h[this][12], h[this][13], h[this][14]),
                rotation |-> The({rotationOf(b, s) : s \in {Math_sqrt(traceTerm(b))}}),
                scale |-> Vec3(b.sx, b.sy, b.sz)] : b \in {scaledBasis(h[this])}}))

(***************************************************************************)
(* Inputs of the calls.                                                    *)
(***************************************************************************)
\* invertible, determinant 2
SampleA == Buf(<<1, 2, 0, 3,   0, 1, 0, 1,   3, 2, 3, 1,   2, -1, -1, 3>>)
\* singular without a zero row or column
SampleB == Buf(<<1, 2, 3, 4,   5, 6, 7, 8,   9, 10, 11, 12,   13, 14, 15, 16>>)
\* invertible, determinant -3
SampleC == Buf(<<1, 2, 2, 0,   1, -1, 1, 2,   3, 3, -1, 3,   2, 1, 2, 2>>)
\* third row (indices 2, 6, 10, 14) all zero
SampleZ == Buf(<<1, 2, 0, 3,   1, 1, 0, 2,   3, 2, 0, 3,   2, -1, 0, 2>>)
\* what the first and the second instance hold at the start
Samples1 == {SampleA, SampleB, SampleZ}
Samples2 == {SampleB, SampleC}

\* the array [1, 2, ..., n]
ArrayOf(n) == [i \in 0 .. n - 1 |-> Num(i + 1)]
Arrays == {ArrayOf(n) : n \in {3, 15, 16, 17}}

Factors == {Num(0), Num(2), Frac(-1, 2)}
Positions == {Vec3(Num(1), Num(2), Num(3))}
Rotations == {Quat(Num(0), Num(0), Num(0), Num(1)),
              Quat(Frac(1, 2), Frac(1, 2), Frac(1, 2), Frac(1, 2)),
              Quat(Num(1), Num(0), Num(0), Num(0)),
              Quat(Num(1), Num(2), Num(-1), Num(3))}
Scales == {Vec3(Num(2), Num(3), Num(-1)), Vec3(Num(2), Num(3), Num(1))}

(***************************************************************************)
(* State.                                                                  *)
(***************************************************************************)
VARIABLES
    val,    \* val[o]: the buffer _val of instance o
    alloc,  \* the instances constructed so far
    json,   \* the Matrix4Json record serialise last returned: <<>> or <<record>>
    hist    \* the calls made so far, in order: name, arguments, the heap before
            \* the call, return value and error

\* one Texture, its image element, the renderer's yield and the GL context
VARIABLES
    texture,   \* _texture: Undefined or the GL texture handle held
    fetching,  \* the image is being fetched: src is set and neither its load
               \* nor its error event has fired
    yielded,   \* the load() calls whose callback waits on
               \* Renderer.instance.yield.next, in the order they registered
    promise,   \* promise[k]: the state of the promise the k-th load() returned;
               \* image.onload and image.onerror hold the closures of the last
    created,   \* gl.createTexture has returned the handles 1 .. created
    deleted,   \* the handles passed to gl.deleteTexture
    events     \* the calls and callbacks run so far, in order: name, the GL
               \* calls each issued, and error

matvars == <<val, alloc, json, hist>>
texvars == <<texture, fetching, yielded, promise, created, deleted, events>>
vars == <<val, alloc, json, hist, texture, fetching, yielded, promise, created, deleted, events>>

\* the Texture after its constructor
TextureNew ==
    /\ texture = Undefined
    /\ fetching = FALSE
    /\ yielded = <<>>
    /\ promise = <<>>
    /\ created = 0
    /\ deleted = {}
    /\ events = <<>>

\* number of calls made
nops == Len(hist)

InRange(h) ==
    \A o \in Obj : \A i \in Idx :
        /\ Abs(h[o][i][1]) <= MaxNum
        /\ h[o][i][2] <= MaxDen

CanCall == nops < MaxOps /\ InRange(val)

\* the free heap slot a constructor takes
Free == CHOOSE o \in Obj \ alloc : \A p \in Obj \ alloc : o <= p

\* the state after a call with outcome out; values is the array argument of
\* fromArray and set, and the record of vector arguments of a compose call
Called(op, this, matrix, opt, factor, values, out) ==
    /\ val' = out.h
    /\ hist' = Append(hist, [op |-> op, this |-> this, matrix |-> matrix,
                             opt |-> opt, factor |-> factor, values |-> values,
                             pre |-> val, ret |-> out.ret, err |-> out.err])
    /\ UNCHANGED texvars

Opt == {Undefined} \cup alloc

Init ==
    /\ alloc = {1, 2}
    /\ val \in {[o \in Obj |-> IF o = 1 THEN s1 ELSE IF o = 2 THEN s2 ELSE NewVal] :
                    s1 \in Samples1, s2 \in Samples2}
    /\ json = <<>>
    /\ hist = <<>>
    /\ TextureNew

CallNew ==
    /\ CanCall /\ alloc # Obj
    /\ Called("new", Undefined, Undefined, Undefined, Num(0), <<>>, New(val, Free))
    /\ alloc' = alloc \cup {Free}
    /\ UNCHANGED json

CallSerialise ==
    \E this \in alloc :
        /\ CanCall
        /\ json' = <<serialise(val, this)>>
        /\ Called("serialise", this, Undefined, Undefined, Num(0), <<>>,
                  Ok(val, Undefined))
        /\ UNCHANGED alloc

CallDeserialise ==
    \E this \in alloc :
        /\ CanCall /\ json # <<>>
        /\ Called("deserialise", this, Undefined, Undefined, Num(0), <<>>,
                  deserialise(val, this, json[1]))
        /\ UNCHANGED <<alloc, json>>

CallStaticDeserialise ==
    /\ CanCall /\ json # <<>> /\ alloc # Obj
    /\ Called("Matrix4.deserialise", Undefined, Undefined, Undefined, Num(0), <<>>,
              Matrix4_deserialise(val, Free, json[1]))
    /\ alloc' = alloc \cup {Free}
    /\ UNCHANGED json

CallSet ==
    \E this \in alloc : \E s \in {SampleA, SampleB} :
        /\ CanCall
        /\ Called("set", this, Undefined, Undefined, Num(0), s,
                  set(val, this, s[0], s[1], s[2], s[3], s[4], s[5], s[6], s[7],
                      s[8], s[9], s[10], s[11], s[12], s[13], s[14], s[15]))
        /\ UNCHANGED <<alloc, json>>

CallFromArray ==
    \E this \in alloc : \E values \in Arrays :
        /\ CanCall
        /\ Called("fromArray", this, Undefined, Undefined, Num(0), values,
                  fromArray(val, this, values))
        /\ UNCHANGED <<alloc, json>>

CallCopy ==
    \E this \in alloc : \E matrix \in alloc :
        /\ CanCall
        /\ Called("copy", this, matrix, Undefined, Num(0), <<>>,
                  copy(val, this, matrix))
        /\ UNCHANGED <<alloc, json>>

CallClone ==
    \E this \in alloc :
        /\ CanCall /\ alloc # Obj
        /\ Called("clone", this, Undefined, Undefined, Num(0), <<>>,
                  clone(val, this, Free))
        /\ alloc' = alloc \cup {clone(val, this, Free).ret}
        /\ UNCHANGED json

CallIdentity ==
    \E this \in alloc :
        /\ CanCall
        /\ Called("identity", this, Undefined, Undefined, Num(0), <<>>,
                  identity(val, this))
        /\ UNCHANGED <<alloc, json>>

CallScale ==
    \E this \in alloc : \E factor \in Factors : \E opt \in Opt :
        /\ CanCall
        /\ Called("scale", this, Undefined, opt, factor, <<>>,
                  scale(val, this, factor, opt))
        /\ UNCHANGED <<alloc, json>>

CallMultiply ==
    \E this \in alloc : \E matrix \in alloc : \E opt \in Opt :
        /\ CanCall
        /\ Called("multiply", this, matrix, opt, Num(0), <<>>,
                  multiply(val, this, matrix, opt))
        /\ UNCHANGED <<alloc, json>>

CallPreMultiply ==
    \E this \in alloc : \E matrix \in alloc : \E opt \in Opt :
        /\ CanCall
        /\ Called("preMultiply", this, matrix, opt, Num(0), <<>>,
                  preMultiply(val, this, matrix, opt))
        /\ UNCHANGED <<alloc, json>>

\* Matrix4.multiply(a, b, result): a is recorded as this, b as matrix
CallStaticMultiply ==
    \E a \in alloc : \E b \in alloc : \E result \in alloc :
        /\ CanCall
        /\ Called("Matrix4.multiply", a, b, result, Num(0), <<>>,
                  Matrix4_multiply(val, a, b, result))
        /\ UNCHANGED <<alloc, json>>

CallInvert ==
    \E this \in alloc : \E opt \in Opt :
        /\ CanCall
        /\ Called("invert", this, Undefined, opt, Num(0), <<>>,
                  invert(val, this, opt))
        /\ UNCHANGED <<alloc, json>>

CallTranspose ==
    \E this \in alloc :
        /\ CanCall
        /\ Called("transpose", this, Undefined, Undefined, Num(0), <<>>,
                  transpose(val, this))
        /\ UNCHANGED <<alloc, json>>

CallResetPos ==
    \E this \in alloc :
        /\ CanCall
        /\ Called("resetPos", this, Undefined, Undefined, Num(0), <<>>,
                  resetPos(val, this))
        /\ UNCHANGED <<alloc, json>>

CallSetToProjection ==
    \E this \in alloc : \E t \in {Num(1), Frac(1, 2)} : \E aspect \in {Num(1), Num(2)} :
        /\ CanCall
        /\ Called("setToProjection", this, Undefined, Undefined, Num(0), <<>>,
                  setToProjection(val, this, Num(1), Num(3), t, aspect))
        /\ UNCHANGED <<alloc, json>>

CallComposePos ==
    \E this \in alloc : \E p \in Positions :
        /\ CanCall
        /\ Called("composePos", this, Undefined, Undefined, Num(0),
                  [position |-> p],
                  composePos(val, this, p))
        /\ UNCHANGED <<alloc, json>>

CallComposeRot ==
    \E this \in alloc : \E q \in Rotations :
        /\ CanCall
        /\ Called("composeRot", this, Undefined, Undefined, Num(0),
                  [rotation |-> q],
                  composeRot(val, this, q))
        /\ UNCHANGED <<alloc, json>>

CallComposePosRot ==
    \E this \in alloc : \E p \in Positions : \E q \in Rotations :
        /\ CanCall
        /\ Called("composePosRot", this, Undefined, Undefined, Num(0),
                  [position |-> p, rotation |-> q],
                  composePosRot(val, this, p, q))
        /\ UNCHANGED <<alloc, json>>

CallComposePosRotSca ==
    \E this \in alloc : \E p \in Positions : \E q \in Rotations : \E s \in Scales :
        /\ CanCall
        /\ Called("composePosRotSca", this, Undefined, Undefined, Num(0),
                  [position |-> p, rotation |-> q, scale |-> s],
                  composePosRotSca(val, this, p, q, s))
        /\ UNCHANGED <<alloc, json>>

CallDecomposePosRotSca ==
    \E this \in alloc :
        /\ CanCall /\ ExactRoots(val[this])
        /\ Called("decomposePosRotSca", this, Undefined, Undefined, Num(0), <<>>,
                  decomposePosRotSca(val, this))
        /\ UNCHANGED <<alloc, json>>

Next ==
    \/ CallNew
    \/ CallSerialise
    \/ CallDeserialise
    \/ CallStaticDeserialise
    \/ CallSet
    \/ CallFromArray
    \/ CallCopy
    \/ CallClone
    \/ CallIdentity
    \/ CallScale
    \/ CallMultiply
    \/ CallPreMultiply
    \/ CallStaticMultiply
    \/ CallInvert
    \/ CallTranspose
    \/ CallResetPos
    \/ CallSetToProjection
    \/ CallComposePos
    \/ CallComposeRot
    \/ CallComposePosRot
    \/ CallComposePosRotSca
    \/ CallDecomposePosRotSca

Spec == Init /\ [][Next]_vars

(***************************************************************************)
(* Texture: load, the image's events, the callback on the renderer's       *)
(* yield, bind and destroy.  Each is one step: the handlers run to         *)
(* completion on one thread.                                               *)
(***************************************************************************)
CanRun == Len(events) < MaxEvents

\* the step op ran, issued the GL calls gl and ended with error err
Ran(op, gl, err) == events' = Append(events, [op |-> op, gl |-> gl, err |-> err])

\* accept or reject of the promise load() number k returned: a settled
\* promise stays as it is
Settle(k, state) ==
    promise' = IF promise[k] = "pending" THEN [promise EXCEPT ![k] = state] ELSE promise

\* load(): installs this call's closures as image.onload and image.onerror
\* and sets image.src, which starts the fetch (anew if one was under way)
Texture_load ==
    /\ CanRun /\ Len(promise) < MaxLoads
    /\ promise' = Append(promise, "pending")
    /\ fetching' = TRUE
    /\ Ran("load", <<>>, "none")
    /\ UNCHANGED <<texture, yielded, created, deleted>>
    /\ UNCHANGED matvars

\* the image's load event: image.onload registers a callback on
\* Renderer.instance.yield.next
Image_onload ==
    /\ CanRun /\ fetching
    /\ fetching' = FALSE
    /\ yielded' = Append(yielded, Len(promise))
    /\ Ran("onload", <<>>, "none")
    /\ UNCHANGED <<texture, promise, created, deleted>>
    /\ UNCHANGED matvars

\* the image's error event: image.onerror rejects the promise
Image_onerror ==
    /\ CanRun /\ fetching
    /\ fetching' = FALSE
    /\ Settle(Len(promise), "rejected")
    /\ Ran("onerror", <<>>, "none")
    /\ UNCHANGED <<texture, yielded, created, deleted>>
    /\ UNCHANGED matvars

\* the GL calls of _executeOnce once createTexture returned a handle
UploadCalls ==
    <<"createTexture", "bindTexture", "texImage2D", "generateMipmap",
      "texParameteri", "texParameteri", "texParameteri", "bindTexture">>

\* the renderer's yield resolves: the oldest waiting callback runs
\* _executeOnce and accepts; gl.createTexture returns a new handle or null,
\* and on null _executeOnce throws, which .catch(reject) turns into reject
Yield_next ==
    /\ CanRun /\ yielded # <<>>
    /\ yielded' = Tail(yielded)
    /\ \E got \in BOOLEAN :
           IF got
           THEN /\ created' = created + 1
                /\ texture' = created + 1
                /\ Settle(Head(yielded), "accepted")
                /\ Ran("executeOnce", UploadCalls, "none")
           ELSE /\ Settle(Head(yielded), "rejected")
                /\ Ran("executeOnce", <<"createTexture">>, "failed gl.createTexture()")
                /\ UNCHANGED <<texture, created>>
    /\ UNCHANGED <<fetching, deleted>>
    /\ UNCHANGED matvars

\* bind(gl, uniform, unit)
Texture_bind ==
    /\ CanRun
    /\ IF texture = Undefined
       THEN Ran("bind", <<>>, "none")
       ELSE Ran("bind", <<"uniform1i", "activeTexture", "bindTexture">>, "none")
    /\ UNCHANGED <<texture, fetching, yielded, promise, created, deleted>>
    /\ UNCHANGED matvars

\* destroy(), with Renderer.instance.valid as the renderer gives it
Texture_destroy ==
    /\ CanRun
    /\ \E valid \in BOOLEAN :
           IF ~valid
           THEN /\ Ran("destroy", <<>>, "Renderer instance is not valid")
                /\ UNCHANGED <<texture, deleted>>
           ELSE /\ IF texture # Undefined
                   THEN deleted' = deleted \cup {texture} /\ Ran("destroy", <<"deleteTexture">>, "none")
                   ELSE deleted' = deleted /\ Ran("destroy", <<>>, "none")
                /\ texture' = Undefined
    /\ UNCHANGED <<fetching, yielded, promise, created>>
    /\ UNCHANGED matvars

\* no Matrix4 is constructed or called while the Texture runs
TexInit ==
    /\ TextureNew
    /\ val = [o \in Obj |-> NewVal]
    /\ alloc = {}
    /\ json = <<>>
    /\ hist = <<>>

TexNext ==
    \/ Texture_load
    \/ Image_onload
    \/ Image_onerror
    \/ Yield_next
    \/ Texture_bind
    \/ Texture_destroy

TexSpec == TexInit /\ [][TexNext]_vars

(***************************************************************************)
(* Properties.                                                             *)
(***************************************************************************)
\* the last call, the heap before it, and the instance its result went to
last == hist[Len(hist)]
pre == last.pre
res == OrThis(last.opt, last.this)
Did(op) == nops > 0 /\ last.op = op
Succeeded == last.err = "none"

\* the heap after call k
After(k) == IF k = Len(hist) THEN val ELSE hist[k + 1].pre

\* the product a * b of two column-major buffers, by the definition
\* (a * b)[row r, column c] = sum over k of a[row r, column k] * b[row k, column c]
Product(a, b) ==
    [i \in Idx |->
        LET r == i % 4
            c == i \div 4
        IN  Add4(Mul(a[r], b[4 * c]), Mul(a[4 + r], b[4 * c + 1]),
                 Mul(a[8 + r], b[4 * c + 2]), Mul(a[12 + r], b[4 * c + 3]))]

\* d times the identity matrix
Diagonal(d) == [i \in Idx |-> IF i % 5 = 0 THEN d ELSE Num(0)]

\* a heap slot outside S
Other(S) == CHOOSE o \in Obj : o \notin S

\* every buffer but that of instance o is as it was before the last call
OnlyWrote(o) == \A p \in Obj \ {o} : val[p] = pre[p]

\* C1: after M.scale(f, R) every entry of the written-to instance (R when given,
\* else M) is M's entry before the call times f
C1_ScaleWritesProductsOfReceiver ==
    Did("scale") =>
        \A i \in Idx : val[res][i] = Mul(pre[last.this][i], last.factor)

\* C2: scale, multiply, preMultiply and invert return the instance they wrote
\* (the result instance when one is given, else the receiver); the other
\* mutating operations return the receiver
C2_ReturnsMutatedInstance ==
    (nops > 0 /\ Succeeded) =>
        /\ last.op \in {"scale", "multiply", "preMultiply", "invert"}
              => last.ret = res
        /\ last.op \in {"identity", "set", "fromArray", "copy", "deserialise",
                        "transpose", "resetPos", "setToProjection", "composePos",
                        "composeRot", "composePosRot", "composePosRotSca"}
              => last.ret = last.this

\* C3: a multiplication leaves in its result what the same call leaves in an
\* instance that is neither operand, whether the result is a, is b, or a, b and
\* the result are one instance; invert into the receiver leaves what invert into
\* another instance leaves there
C3_SelfAliasingSafe ==
    /\ (Did("multiply") \/ Did("Matrix4.multiply")) =>
           LET F == Other({last.this, last.matrix})
           IN  val[res] = Matrix4_multiply(pre, last.this, last.matrix, F).h[F]
    /\ Did("preMultiply") =>
           LET F == Other({last.this, last.matrix})
           IN  val[res] = Matrix4_multiply(pre, last.matrix, last.this, F).h[F]
    /\ (Did("invert") /\ Succeeded /\ res = last.this) =>
           LET F == Other({last.this})
           IN  val[res] = invert(pre, last.this, F).h[F]

\* C3 witness: Matrix4.multiply(a, a, a) on an instance the call changed
C3_Witness ==
    /\ Did("Matrix4.multiply")
    /\ last.this = last.matrix /\ last.matrix = last.opt
    /\ pre[last.this] = SampleA
    /\ val[last.this] # SampleA

\* C4: invert throws SingularMatrix, and writes to no buffer, whenever the
\* receiver's determinant is 0, in particular whenever a row of the receiver is
\* all zero; it throws nothing when the determinant is not 0
C4_SingularRejection ==
    Did("invert") =>
        LET M == pre[last.this]
            det == determinant(pre, last.this)
            zeroRow == \E r \in 0 .. 3 : \A c \in 0 .. 3 : IsZero(M[4 * c + r])
        IN  /\ IsZero(det) => (last.err = "SingularMatrix" /\ val = pre)
            /\ ~IsZero(det) => Succeeded
            /\ zeroRow => (last.err = "SingularMatrix" /\ val = pre)

\* C4 witness: invert(R) on the matrix whose third row is zero, R another instance
C4_Witness ==
    /\ Did("invert")
    /\ pre[last.this] = SampleZ
    /\ last.opt \notin {Undefined, last.this}
    /\ last.err = "SingularMatrix"

\* C5: what invert writes is the inverse of the receiver M: both products with M
\* are the identity, the written values times the determinant (the cofactors)
\* are the adjugate, M * adj = adj * M = determinant * identity, and
\* M.multiply(inverse) is the identity matrix
C5_InverseProperty ==
    (Did("invert") /\ Succeeded) =>
        LET M == pre[last.this]
            R == val[res]
            det == determinant(pre, last.this)
            adj == [i \in Idx |-> Mul(R[i], det)]
            c == cofactors(M)
            h == [o \in Obj |-> IF o = 1 THEN M ELSE R]
        IN  /\ Product(M, R) = NewVal
            /\ Product(R, M) = NewVal
            /\ adj = Arr16(c.m00, c.m10, c.m20, c.m30, c.m01, c.m11, c.m21, c.m31,
                           c.m02, c.m12, c.m22, c.m32, c.m03, c.m13, c.m23, c.m33)
            /\ Product(M, adj) = Diagonal(det)
            /\ Product(adj, M) = Diagonal(det)
            /\ multiply(h, 1, 2, Undefined).h[1] = NewVal

\* C5 witness: invert() succeeded in place on the matrix of determinant -3
C5_Witness ==
    /\ Did("invert") /\ Succeeded
    /\ pre[last.this] = SampleC
    /\ last.opt = Undefined
    /\ val[last.this] # SampleC

\* C6: multiply(a, b, result) writes result[4c + r] = sum over k of
\* a[4k + r] * b[4c + k]; A.multiply(B, R) leaves A * B, A.preMultiply(B, R)
\* leaves B * A, which is what B.multiply(A, R) leaves
C6_MultiplicationOrder ==
    /\ (Did("multiply") \/ Did("Matrix4.multiply")) =>
           val[res] = Product(pre[last.this], pre[last.matrix])
    /\ Did("preMultiply") =>
           /\ val[res] = Product(pre[last.matrix], pre[last.this])
           /\ val[res] = multiply(pre, last.matrix, last.this, res).h[res]

\* C6 witness: A.preMultiply(B, R) with A * B # B * A
C6_Witness ==
    /\ Did("preMultiply")
    /\ last.opt # Undefined
    /\ last.this # last.matrix
    /\ Product(pre[last.this], pre[last.matrix])
           # Product(pre[last.matrix], pre[last.this])

\* the call that returned the Matrix4Json record now in json
LastSerialise ==
    CHOOSE k \in 1 .. Len(hist) :
        /\ hist[k].op = "serialise"
        /\ \A j \in k + 1 .. Len(hist) : hist[j].op # "serialise"

\* C7: deserialise(serialise(M)), by the method on any receiver and by the static
\* factory on a new instance, leaves M's 16 values index by index, and serialise
\* changes no buffer
C7_SerialiseRoundTrip ==
    /\ Did("serialise") => val = pre
    /\ (Did("deserialise") \/ Did("Matrix4.deserialise")) =>
           LET s == hist[LastSerialise]
           IN  \A i \in Idx : val[last.ret][i] = s.pre[s.this][i]

\* C7 witness: serialise on an instance holding 1..16, then deserialise on another
\* instance that held something else
C7_Witness ==
    /\ nops = 2
    /\ hist[1].op = "serialise" /\ hist[2].op = "deserialise"
    /\ hist[1].this # hist[2].this
    /\ hist[1].pre[hist[1].this] = SampleB
    /\ hist[2].pre[hist[2].this] # SampleB
    /\ val[hist[2].this] = SampleB

\* C8: fromArray(values) throws InvalidArgument and leaves the heap unchanged
\* when values has fewer than 16 elements; otherwise it throws nothing and sets
\* entry i of the receiver to values[i] for i in 0..15
C8_FromArrayBoundary ==
    Did("fromArray") =>
        IF Length(last.values) < 16
        THEN last.err = "InvalidArgument" /\ val = pre
        ELSE /\ Succeeded
             /\ \A i \in Idx : val[last.this][i] = last.values[i]
             /\ OnlyWrote(last.this)

\* C8 witness: fromArray of 15 elements threw
C8_Witness ==
    /\ Did("fromArray")
    /\ Length(last.values) = 15
    /\ last.err = "InvalidArgument"

\* C8 witness of the other side: fromArray of 17 elements changed the receiver
C8_WitnessLong ==
    /\ Did("fromArray")
    /\ Length(last.values) = 17
    /\ Succeeded
    /\ val[last.this] # pre[last.this]

\* the instances constructed before call k
AllocBefore(k) ==
    {1, 2} \cup {hist[j].ret : j \in {i \in 1 .. k - 1 :
                     hist[i].op \in {"new", "clone", "Matrix4.deserialise"}}}

\* call c is a method call on instance x that names no other result instance
AppliedTo(c, x) ==
    /\ c.this = x
    /\ c.opt \in {Undefined, x}
    /\ c.op # "Matrix4.multiply"

\* C9: clone() returns a new instance with the receiver's values and changes no
\* existing instance; after clone(), and after copy(other), calls applied to one
\* of the two instances leave the other one's values unchanged
C9_CloneIndependence ==
    \A k \in 1 .. Len(hist) :
        LET c == hist[k]
        IN  /\ (c.op = "clone" /\ c.err = "none") =>
                  /\ c.ret \notin AllocBefore(k)
                  /\ After(k)[c.ret] = c.pre[c.this]
                  /\ \A o \in AllocBefore(k) : After(k)[o] = c.pre[o]
            /\ ((c.op = "clone" \/ (c.op = "copy" /\ c.matrix # c.this))
                    /\ c.err = "none") =>
                  LET x == IF c.op = "clone" THEN c.this ELSE c.matrix
                      y == c.ret
                      later == k + 1 .. Len(hist)
                  IN  /\ (\A j \in later : AppliedTo(hist[j], y))
                          => val[x] = After(k)[x]
                      /\ (\A j \in later : AppliedTo(hist[j], x))
                          => val[y] = After(k)[y]

\* C9 witness: clone(), then a call on the clone that changed it
C9_Witness ==
    /\ nops = 2
    /\ hist[1].op = "clone" /\ hist[1].err = "none"
    /\ hist[2].op = "invert" /\ hist[2].err = "none"
    /\ AppliedTo(hist[2], hist[1].ret)
    /\ val[hist[1].ret] # hist[2].pre[hist[1].ret]

\* C10: transpose() moves the value at index 4r + c to index 4c + r for all r, c
\* (the six pairs exchanged, the diagonal kept), and a second transpose() restores
\* all 16 values
C10_Transpose ==
    Did("transpose") =>
        LET old == pre[last.this]
            new == val[last.this]
        IN  /\ \A r \in 0 .. 3 : \A c \in 0 .. 3 : new[4 * c + r] = old[4 * r + c]
            /\ \A pr \in {<<1, 4>>, <<2, 8>>, <<3, 12>>, <<6, 9>>, <<7, 13>>, <<11, 14>>} :
                   new[pr[1]] = old[pr[2]] /\ new[pr[2]] = old[pr[1]]
            /\ \A d \in {0, 5, 10, 15} : new[d] = old[d]
            /\ OnlyWrote(last.this)
            /\ (nops >= 2 /\ hist[nops - 1].op = "transpose"
                    /\ hist[nops - 1].this = last.this)
                  => new = hist[nops - 1].pre[last.this]

\* C10 witness: two transpose() calls on the instance that held 1..16
C10_Witness ==
    /\ nops = 2
    /\ hist[1].op = "transpose" /\ hist[2].op = "transpose"
    /\ hist[1].this = hist[2].this
    /\ hist[1].pre[hist[1].this] = SampleB
    /\ hist[2].pre[hist[2].this] # SampleB
    /\ val[hist[2].this] = SampleB

\* the heap h with the buffer of instance o replaced by b
WithVal(h, o, b) == [h EXCEPT ![o] = b]

\* C11: composePosRot(p, q) leaves what composePosRotSca(p, q, (1,1,1)) leaves,
\* composeRot(q) what composePosRot((0,0,0), q) leaves, composePos(p) what
\* composePosRotSca(p, (0,0,0,1), (1,1,1)) leaves, whatever the receiver held
\* before (its contents before the call, 1..16, or the identity)
C11_ComposeDegenerateCases ==
    LET a == last.values
        this == last.this
        one == Vec3(Num(1), Num(1), Num(1))
        zero == Vec3(Num(0), Num(0), Num(0))
        unit == Quat(Num(0), Num(0), Num(0), Num(1))
        priors == {pre, WithVal(pre, this, SampleB), WithVal(pre, this, NewVal)}
    IN  /\ Did("composePosRot") =>
               \A h \in priors :
                   val[this] = composePosRotSca(h, this, a.position, a.rotation, one).h[this]
        /\ Did("composeRot") =>
               \A h \in priors :
                   val[this] = composePosRot(h, this, zero, a.rotation).h[this]
        /\ Did("composePos") =>
               \A h \in priors :
                   val[this] = composePosRotSca(h, this, a.position, unit, one).h[this]
        /\ Did("composePosRotSca") =>
               \A h \in priors :
                   val[this] = composePosRotSca(h, this, a.position, a.rotation, a.scale).h[this]

\* C11 witness: composeRot of a rotation that is not the identity on an instance
\* whose translation was not zero
C11_Witness ==
    /\ Did("composeRot")
    /\ last.values.rotation # Quat(Num(0), Num(0), Num(0), Num(1))
    /\ ~IsZero(pre[last.this][12])
    /\ IsZero(val[last.this][12])

\* q has norm 1; every component of s is positive; the quaternion -q
IsUnit(q) == Add4(Mul(q.x, q.x), Mul(q.y, q.y), Mul(q.z, q.z), Mul(q.w, q.w)) = Num(1)
Positive(s) == s.x[1] > 0 /\ s.y[1] > 0 /\ s.z[1] > 0
NegQ(q) == Quat(Neg(q.x), Neg(q.y), Neg(q.z), Neg(q.w))

\* the last two calls were composePosRotSca(p, q, s), with q a unit quaternion
\* and s positive, and then decomposePosRotSca on the same instance
RoundTripPRS ==
    /\ Did("decomposePosRotSca") /\ nops >= 2
    /\ hist[nops - 1].op = "composePosRotSca"
    /\ hist[nops - 1].this = last.this
    /\ IsUnit(hist[nops - 1].values.rotation)
    /\ Positive(hist[nops - 1].values.scale)

\* C12: decomposePosRotSca right after composePosRotSca(p, q, s), q a unit
\* quaternion and s positive, gives the position p, the scale s and the
\* rotation q or -q, and leaves every buffer as it was.
C12_RoundTripPRS ==
    RoundTripPRS =>
        LET a == hist[nops - 1].values
        IN  /\ last.ret.position = a.position
            /\ last.ret.scale = a.scale
            /\ last.ret.rotation \in {a.rotation, NegQ(a.rotation)}
            /\ val = pre

\* event i is a destroy() that returned, and no load() was called after it up
\* to event j
Destroyed(i, j) ==
    /\ events[i].op = "destroy" /\ events[i].err = "none"
    /\ \A k \in i + 1 .. j : events[k].op # "load"

\* C13: once destroy() has returned and until load() is called again, the
\* Texture holds no GL handle and no bind() issues a GL call, whatever the
\* image's events and the yield callbacks of earlier load() calls do; and
\* every handle gl.createTexture returned is held or was deleted.
C13_TextureLifecycle ==
    /\ (\E i \in 1 .. Len(events) : Destroyed(i, Len(events))) => texture = Undefined
    /\ \A j \in 1 .. Len(events) :
           (events[j].op = "bind" /\ \E i \in 1 .. j - 1 : Destroyed(i, j))
               => events[j].gl = <<>>
    /\ \A t \in 1 .. created : t = texture \/ t \in deleted

====
